---- MODULE Spec2Model ----
(***************************************************************************)
(* Device registry and hotplug lifecycle of the Fadecandy OPC server       *)
(* (server/src/fcserver.cpp).                                              *)
(*                                                                         *)
(* Three threads touch the registry mUSBDevices, all under mEventMutex:    *)
(*   "net"   the OPC sink's thread, running cbMessage once per frame;      *)
(*   "main"  mainLoop: the libusb event pump (which, on platforms with     *)
(*           hotplug support, runs cbHotplug synchronously) and the flush  *)
(*           pass;                                                         *)
(*   "poll"  usbHotplugThreadFunc, created only on platforms without       *)
(*           hotplug support.                                              *)
(*                                                                         *)
(* Device drivers (FCDevice, EnttecDMXDevice) and libusb are external:     *)
(* the results of their calls are inputs, drawn with \E.  The calls that   *)
(* usbDeviceArrived makes are recorded, in order, in lastArrival.hist; a   *)
(* registered object keeps the names of those that succeeded.              *)
(*                                                                         *)
(* Vector positions are 1-based here (the code's begin() is position 1).   *)
(* Configuration indices keep the code's 0-based numbering.                *)
(***************************************************************************)
EXTENDS Integers, Sequences, FiniteSets, TLC

(* ------------------------------ bounds --------------------------------- *)

\* Number of distinct native device handles (libusb_device*) in the world.
NumHandles == 3

\* Number of device objects that may ever be registered; once reached, the
\* static probes of further arrivals reject the device.
MaxObjs == 3

Handles == 1..NumHandles

\* A pointer value that equals no live libusb_device*.
NoHandle == 0

\* Results of USBDevice::open(): 0 on success, a negative libusb error.
OpenResults == {-1, 0}

\* The configuration entries a device may satisfy, and the "devices" arrays
\* the server may be constructed with.
CfgEntries == {"A", "B"}
ConfigArrays == {<<"A", "B">>, <<"B", "A">>}

Threads == {"main", "net", "poll"}

VARIABLES
    hasHotplug,    \* libusb_has_capability(LIBUSB_CAP_HAS_HOTPLUG)
    mDevices,      \* config["devices"], the configured devices array
    mVerbose,      \* config["verbose"]
    mUSBDevices,   \* the registry: vector<USBDevice*>, as object ids
    stale,         \* usbHotplugPoll: what the vector's storage holds from
                   \* end() up to the removal loop's e
    objs,          \* every device object ever registered, by object id:
                   \* its handle, the calls of its attach, whether it lives
    mEventMutex,   \* set of threads that have locked and not yet unlocked
    pc,            \* position of each thread
    crashed,       \* the process was aborted by undefined behaviour
    msgI, msgE,    \* cbMessage: iterators i and e
    msgLog,        \* cbMessage: objects given writeMessage in this call
    msgSnap,       \* cbMessage: registry when the lock was acquired
    flushI, flushE,\* mainLoop flush pass: iterators i and e
    flushLog,      \* mainLoop: objects given flush in this pass
    flushSnap,     \* mainLoop: registry when the lock was acquired
    hpDevice,      \* cbHotplug: argument device
    hpEvent,       \* cbHotplug: argument event
    hpFrom,        \* cbHotplug: where libusb called it from, "start" for
                   \* startUSB, "pump" for the main loop's event pump
    lastArrival,   \* the usbDeviceArrived call just made: its calls in order
                   \* (hist), the entries the device accepts if any was
                   \* consulted (sat), the registry before and after
    lastLeft,      \* the usbDeviceLeft(libusb_device*) call just made: the
                   \* registry, its handles and the live objects before it,
                   \* the registry after it
    list,          \* usbHotplugPoll: the enumerated device list
    listItem,      \* usbHotplugPoll: index of the add loop
    scanI, scanE,  \* usbHotplugPoll: iterators i and e of the removal loop
    pollStart,     \* usbHotplugPoll: registry when the lock was acquired
    pollCalls,     \* usbHotplugPoll: handles passed to usbDeviceArrived
    logged,        \* history: the lines the latest step of the main thread
                   \* and of the poll thread wrote to std::clog
    record,        \* which of the histories below this behaviour keeps; the
                   \* histories are independent of one another, and each is
                   \* kept under a specification of its own
    rejected,      \* history: the handle of the latest usbDeviceArrived
                   \* call that constructed a device and did not register
                   \* it; NoHandle once that handle is registered
    attachReq,     \* history: how the pending attach request (cbHotplug for
                   \* an arrival, or a poll cycle, from its lock() on) lies
                   \* relative to cbMessage calls: "none" no request, "idle"
                   \* no call has run since, "during" a call is running,
                   \* "after" the last call that ran has returned
    late,          \* history: registered objects whose attach was pending
                   \* while a cbMessage call ran, and that no cbMessage call
                   \* has returned since
    lateInF        \* history: that cbMessage call is still running

vars == <<hasHotplug, mDevices, mVerbose, logged, mUSBDevices, stale, objs, mEventMutex, pc,
          crashed, msgI, msgE, msgLog, msgSnap, flushI, flushE, flushLog,
          flushSnap, hpDevice, hpEvent, hpFrom, lastArrival, lastLeft, list, listItem, scanI,
          scanE, pollStart, pollCalls, record, rejected, attachReq, late,
          lateInF>>

netVars == <<msgI, msgE, msgLog, msgSnap>>
flushVars == <<flushI, flushE, flushLog, flushSnap>>
hpVars == <<hpDevice, hpEvent, hpFrom>>
callVars == <<lastArrival, lastLeft, rejected>>
pollVars == <<list, listItem, scanI, scanE, pollStart, pollCalls>>
regVars == <<mUSBDevices, stale, objs>>
cfgVars == <<hasHotplug, mDevices, mVerbose, record>>
lateVars == <<attachReq, late, lateInF>>

(* ------------------------------ helpers -------------------------------- *)

Range(s) == {s[k] : k \in 1..Len(s)}

B2I(b) == IF b THEN 1 ELSE 0

\* One call: `op` with argument `arg` returned `res`.
Ev(op, arg, res) == [op |-> op, arg |-> arg, res |-> res]

\* Number of events of h whose op is `op`.
CountOp(h, op) == Cardinality({k \in 1..Len(h) : h[k].op = op})

\* s without its element at position p.
RemoveAt(s, p) == SubSeq(s, 1, p - 1) \o SubSeq(s, p + 1, Len(s))

NoArrival == [called |-> FALSE, device |-> NoHandle, sat |-> {},
              hist |-> <<>>, before |-> <<>>, after |-> <<>>,
              retry |-> FALSE]

NoLeft == [called |-> FALSE, device |-> NoHandle, before |-> <<>>,
           handles |-> <<>>, alive |-> {}, after |-> <<>>]

\* The lines written to std::clog, by what they report.
LogLines == {"error opening", "attached", "no matching configuration",
             "removed", "error handling USB events",
             "error polling for USB devices"}

NoLog == [t \in {"main", "poll"} |-> <<>>]

\* Thread t's step wrote `lines` (kept under the specification that keeps
\* the history of log lines).
Log(t, lines) ==
    logged' = IF record = "log" THEN [logged EXCEPT ![t] = lines] ELSE logged

(* --------------------------- mEventMutex ------------------------------- *)

\* tthread::mutex::lock() returns only when no thread holds the mutex.
MutexFree == mEventMutex = {}

Lock(t) == mEventMutex' = mEventMutex \cup {t}
Unlock(t) == mEventMutex' = mEventMutex \ {t}

(* ------------------------- usbDeviceArrived ---------------------------- *)

\* The driver classes, in the order their static probes are tried.
FCDevice == 0
EnttecDMXDevice == 1

\* Static probes: FCDevice::probe first, EnttecDMXDevice::probe second; the
\* first class whose probe accepts the device is constructed.
ProbeHist(fc, en) ==
    IF fc THEN <<Ev("probe", FCDevice, 1), Ev("new", FCDevice, 0)>>
    ELSE IF en THEN <<Ev("probe", FCDevice, 0),
                      Ev("probe", EnttecDMXDevice, 1),
                      Ev("new", EnttecDMXDevice, 0)>>
    ELSE <<Ev("probe", FCDevice, 0), Ev("probe", EnttecDMXDevice, 0)>>

\* Mutant: a matching device is pushed without colour correction.
RECURSIVE MatchLoopNoColor(_, _, _, _)
MatchLoopNoColor(cfg, sat, i, h) ==
    IF i < Len(cfg)
    THEN IF cfg[i + 1] \in sat
         THEN h \o <<Ev("matchConfiguration", i, 1), Ev("push_back", 0, 0)>>
         ELSE MatchLoopNoColor(cfg, sat, i + 1,
                               h \o <<Ev("matchConfiguration", i, 0)>>)
    ELSE h \o <<Ev("delete", 0, 0)>>

\* Mutant: the entries are consulted from the last one down.
RECURSIVE MatchLoopReverse(_, _, _, _)
MatchLoopReverse(cfg, sat, i, h) ==
    IF i < Len(cfg)
    THEN IF cfg[Len(cfg) - i] \in sat
         THEN h \o <<Ev("matchConfiguration", Len(cfg) - 1 - i, 1),
                     Ev("writeColorCorrection", 0, 0),
                     Ev("push_back", 0, 0)>>
         ELSE MatchLoopReverse(cfg, sat, i + 1,
                  h \o <<Ev("matchConfiguration", Len(cfg) - 1 - i, 0)>>)
    ELSE h \o <<Ev("delete", 0, 0)>>

\* Mutant: a device that matches no entry is not deleted.
RECURSIVE MatchLoopLeak(_, _, _, _)
MatchLoopLeak(cfg, sat, i, h) ==
    IF i < Len(cfg)
    THEN IF cfg[i + 1] \in sat
         THEN h \o <<Ev("matchConfiguration", i, 1),
                     Ev("writeColorCorrection", 0, 0),
                     Ev("push_back", 0, 0)>>
         ELSE MatchLoopLeak(cfg, sat, i + 1,
                            h \o <<Ev("matchConfiguration", i, 0)>>)
    ELSE h

\* The loop over mDevices: matchConfiguration(mDevices[i]) for i = 0, 1, ...
\* until one returns true.  `sat` is the set of entries the device accepts.
\* On a match the device is colour corrected and pushed; otherwise deleted.
RECURSIVE MatchLoop(_, _, _, _)
MatchLoop(cfg, sat, i, h) ==
    IF i < Len(cfg)
    THEN IF cfg[i + 1] \in sat
         THEN h \o <<Ev("matchConfiguration", i, 1),
                     Ev("writeColorCorrection", 0, 0),
                     Ev("push_back", 0, 0)>>
         ELSE MatchLoop(cfg, sat, i + 1, h \o <<Ev("matchConfiguration", i, 0)>>)
    ELSE h \o <<Ev("delete", 0, 0)>>

\* Mutant: the result of probeAfterOpening() is ignored.
ArrivalHistNoPostProbe(cfg, fc, en, r, pao, sat) ==
    IF ~fc /\ ~en THEN ProbeHist(fc, en)
    ELSE IF r < 0
         THEN ProbeHist(fc, en) \o <<Ev("open", 0, r), Ev("delete", 0, 0)>>
    ELSE MatchLoop(cfg, sat, 0,
                   ProbeHist(fc, en) \o <<Ev("open", 0, r),
                                          Ev("probeAfterOpening", 0, B2I(pao))>>)

\* The calls usbDeviceArrived makes for one device, given the driver results.
ArrivalHist(cfg, fc, en, r, pao, sat) ==
    IF ~fc /\ ~en THEN ProbeHist(fc, en)
    ELSE IF r < 0
         THEN ProbeHist(fc, en) \o <<Ev("open", 0, r), Ev("delete", 0, 0)>>
    ELSE IF ~pao
         THEN ProbeHist(fc, en) \o <<Ev("open", 0, r),
                                     Ev("probeAfterOpening", 0, 0),
                                     Ev("delete", 0, 0)>>
    ELSE MatchLoop(cfg, sat, 0,
                   ProbeHist(fc, en) \o <<Ev("open", 0, r),
                                          Ev("probeAfterOpening", 0, 1)>>)

Pushed(h) == \E k \in 1..Len(h) : h[k].op = "push_back"

\* Mutant: the lines of usbDeviceArrived are written whatever mVerbose is.
ArrivalLogAlways(h) ==
    IF \E k \in 1..Len(h) : h[k].op = "open" /\ h[k].res < 0
    THEN <<"error opening">>
    ELSE IF Pushed(h) THEN <<"attached">>
    ELSE IF \E k \in 1..Len(h) : h[k].op = "matchConfiguration"
         THEN <<"no matching configuration">>
    ELSE <<>>

\* The lines usbDeviceArrived writes, all under `if (mVerbose)`: an open()
\* error (lines 165-180), the attach (198-200), no matching configuration
\* (205-207).  A failed probeAfterOpening() is not reported.
ArrivalLog(h) ==
    IF ~mVerbose THEN <<>>
    ELSE IF \E k \in 1..Len(h) : h[k].op = "open" /\ h[k].res < 0
         THEN <<"error opening">>
    ELSE IF Pushed(h) THEN <<"attached">>
    ELSE IF \E k \in 1..Len(h) : h[k].op = "matchConfiguration"
         THEN <<"no matching configuration">>
    ELSE <<>>

\* The line usbDeviceLeft(iterator) writes under `if (mVerbose)` (229-231).
LeftLog(removed) ==
    IF mVerbose /\ removed THEN <<"removed">> ELSE <<>>

\* A call that let usbDeviceArrived go on: a probe or match that returned
\* true, an open() that returned no error, and every call with no result.
Succeeded(e) ==
    IF e.op = "open" THEN e.res >= 0
    ELSE IF e.op \in {"probe", "probeAfterOpening", "matchConfiguration"}
         THEN e.res = 1
    ELSE TRUE

\* The names of the calls of h that succeeded, in order: what a registered
\* object remembers of its attach.
Setup(h) ==
    LET ok == SelectSeq(h, Succeeded)
    IN  [k \in 1..Len(ok) |-> ok[k].op]

\* The driver results an arriving device can produce.  When MaxObjs objects
\* exist, only devices no driver recognises arrive.
ProbeInputs == IF Len(objs) < MaxObjs THEN BOOLEAN ELSE {FALSE}

\* The results of the driver calls of one usbDeviceArrived call.  The
\* result of a call that is not made is not varied (it is the accepting
\* one): EnttecDMXDevice::probe is not called once FCDevice::probe accepted,
\* open() needs a constructed device, probeAfterOpening() an open one,
\* matchConfiguration() one that passed probeAfterOpening().
ArrivalInputs ==
    {in \in [fc : ProbeInputs, en : ProbeInputs, r : OpenResults,
             pao : BOOLEAN, sat : SUBSET CfgEntries] :
        /\ in.fc => in.en
        /\ (~in.fc /\ ~in.en) => in.r = 0
        /\ in.r < 0 => in.pao
        /\ ~in.pao => in.sat = CfgEntries}

\* Mutant: a handle that was rejected is remembered, and usbDeviceArrived
\* returns at once when it is seen again.
usbDeviceArrivedOnce(device, fc, en, r, pao, sat) ==
    LET h == IF device = rejected THEN <<>>
             ELSE ArrivalHist(mDevices, fc, en, r, pao, sat)
        id == Len(objs) + 1
    IN  /\ IF Pushed(h)
           THEN /\ objs' = Append(objs, [device |-> device,
                                         setup |-> Setup(h),
                                         alive |-> TRUE])
                /\ mUSBDevices' = Append(mUSBDevices, id)
           ELSE UNCHANGED <<mUSBDevices, objs>>
        /\ lastArrival' = [called |-> TRUE, device |-> device,
                           sat |-> IF CountOp(h, "matchConfiguration") > 0
                                   THEN sat ELSE {},
                           hist |-> h, before |-> mUSBDevices,
                           after |-> mUSBDevices',
                           retry |-> device = rejected]
        /\ lastLeft' = NoLeft
        /\ rejected' = IF record # "retry" THEN NoHandle
                       ELSE IF Pushed(h)
                            THEN IF rejected = device THEN NoHandle
                                 ELSE rejected
                       ELSE IF CountOp(h, "new") = 1 THEN device
                       ELSE rejected

\* usbDeviceArrived(device) with the given driver results.
usbDeviceArrived(device, fc, en, r, pao, sat) ==
    LET h == ArrivalHist(mDevices, fc, en, r, pao, sat)
        id == Len(objs) + 1
    IN  /\ IF Pushed(h)
           THEN /\ objs' = Append(objs, [device |-> device,
                                         setup |-> Setup(h),
                                         alive |-> TRUE])
                /\ mUSBDevices' = Append(mUSBDevices, id)
           ELSE UNCHANGED <<mUSBDevices, objs>>
        /\ lastArrival' = [called |-> TRUE, device |-> device,
                           sat |-> IF CountOp(h, "matchConfiguration") > 0
                                   THEN sat ELSE {},
                           hist |-> h, before |-> mUSBDevices,
                           after |-> mUSBDevices',
                           retry |-> device = rejected]
        /\ lastLeft' = NoLeft
        /\ rejected' = IF record # "retry" THEN NoHandle
                       ELSE IF Pushed(h)
                            THEN IF rejected = device THEN NoHandle
                                 ELSE rejected
                       ELSE IF CountOp(h, "new") = 1 THEN device
                       ELSE rejected

(* --------------------------- usbDeviceLeft ----------------------------- *)

\* A destroyed object that no pointer refers to any more.
Destroyed == [device |-> NoHandle, setup |-> <<>>, alive |-> FALSE]

\* delete dev, for a pointer that is dropped at once.
Delete(os, d) == [os EXCEPT ![d] = Destroyed]

\* Mutant: the object is deleted but its pointer stays in the vector.
usbDeviceLeftIterNoErase(vec, os, p) ==
    [vec |-> vec, objs |-> Delete(os, vec[p])]

\* Mutant: the pointer is erased but the object is not deleted.
usbDeviceLeftIterNoDelete(vec, os, p) ==
    [vec |-> RemoveAt(vec, p), objs |-> os]

\* usbDeviceLeft(iterator) for an iterator before end(): erase, then delete.
usbDeviceLeftIter(vec, os, p) ==
    [vec |-> RemoveAt(vec, p), objs |-> Delete(os, vec[p])]

\* The loop of usbDeviceLeft(libusb_device*): the first position from i on
\* whose device is `device`, or 0.
RECURSIVE FindDevice(_, _, _, _)
FindDevice(vec, os, device, i) ==
    IF i > Len(vec) THEN 0
    ELSE IF os[vec[i]].device = device THEN i
    ELSE FindDevice(vec, os, device, i + 1)

\* usbDeviceLeft(libusb_device*): usbDeviceLeft(i) at the first entry
\* whose getDevice() is `device`, then break.
usbDeviceLeft(device) ==
    LET p == FindDevice(mUSBDevices, objs, device, 1)
        res == usbDeviceLeftIter(mUSBDevices, objs, p)
    IN  /\ IF p = 0 THEN UNCHANGED <<mUSBDevices, objs>>
           ELSE /\ mUSBDevices' = res.vec
                /\ objs' = res.objs
        /\ lastLeft' = [called |-> TRUE, device |-> device,
                        before |-> mUSBDevices,
                        handles |-> [k \in 1..Len(mUSBDevices) |->
                                       objs[mUSBDevices[k]].device],
                        alive |-> {d \in 1..Len(objs) : objs[d].alive},
                        after |-> mUSBDevices']

(* ------------------- reads through vector iterators -------------------- *)

\* The process is aborted; no thread takes another step.
Crash == /\ crashed' = TRUE
         /\ UNCHANGED <<cfgVars, logged, lateVars, regVars, mEventMutex, pc, netVars, flushVars,
                        hpVars, callVars, pollVars>>

\* What *iter can yield for an iterator at position p.  A position before
\* end() yields the element.  A position at or past end() is undefined
\* behaviour: the read yields whatever the storage still holds, or the
\* process is aborted (0).
Derefs(p) ==
    IF p <= Len(mUSBDevices) THEN {mUSBDevices[p]}
    ELSE IF p - Len(mUSBDevices) <= Len(stale)
         THEN {stale[p - Len(mUSBDevices)], 0}
         ELSE {0}

\* What dev->getDevice() can return.  On a destroyed object the call is
\* undefined behaviour: the freed memory still holds the handle, or holds
\* a value equal to no handle.
GetDevice(d) ==
    IF objs[d].alive THEN {objs[d].device} ELSE {objs[d].device, NoHandle}

(* ------------------------------ cbMessage ------------------------------ *)

\* History of a step that may change the registry: an object pushed by an
\* attach that was pending while a cbMessage call ran becomes late, and an
\* object that leaves the registry is forgotten.
LateUpdate ==
    LET new == Range(mUSBDevices') \ Range(mUSBDevices)
    IN  /\ late' = IF attachReq \in {"during", "after"}
                   THEN (late \cup new) \cap Range(mUSBDevices')
                   ELSE late \cap Range(mUSBDevices')
        /\ lateInF' = (lateInF \/ (attachReq = "during" /\ new # {}))

\* Mutant: cbMessage sets up its loop without taking the lock.
CbMessageNoLock ==
    /\ ~crashed /\ pc["net"] = "idle"
    /\ msgI' = 1 /\ msgE' = Len(mUSBDevices) + 1
    /\ msgLog' = <<>> /\ msgSnap' = mUSBDevices
    /\ pc' = [pc EXCEPT !["net"] = "msg_loop"]
    /\ attachReq' = IF attachReq \in {"idle", "after"} THEN "during"
                    ELSE attachReq
    /\ UNCHANGED <<late, lateInF>>
    /\ UNCHANGED <<cfgVars, logged, regVars, mEventMutex, crashed, flushVars, hpVars,
                   callVars, pollVars>>

\* Mutant: cbMessage's loop stops one element before end().
CbMessageLockShort ==
    /\ ~crashed /\ pc["net"] = "idle" /\ MutexFree
    /\ Lock("net")
    /\ msgI' = 1 /\ msgE' = IF mUSBDevices = <<>> THEN 1 ELSE Len(mUSBDevices)
    /\ msgLog' = <<>> /\ msgSnap' = mUSBDevices
    /\ pc' = [pc EXCEPT !["net"] = "msg_loop"]
    /\ attachReq' = IF attachReq \in {"idle", "after"} THEN "during"
                    ELSE attachReq
    /\ UNCHANGED <<late, lateInF>>
    /\ UNCHANGED <<cfgVars, logged, regVars, crashed, flushVars, hpVars, callVars,
                   pollVars>>

\* A frame arrives; cbMessage locks and sets up the loop (lines 118, 120).
CbMessageLock ==
    /\ ~crashed /\ pc["net"] = "idle" /\ MutexFree
    /\ Lock("net")
    /\ msgI' = 1 /\ msgE' = Len(mUSBDevices) + 1
    /\ msgLog' = <<>> /\ msgSnap' = mUSBDevices
    /\ pc' = [pc EXCEPT !["net"] = "msg_loop"]
    /\ attachReq' = IF attachReq \in {"idle", "after"} THEN "during"
                    ELSE attachReq
    /\ UNCHANGED <<late, lateInF>>
    /\ UNCHANGED <<cfgVars, logged, regVars, crashed, flushVars, hpVars, callVars,
                   pollVars>>

\* One iteration: dev = *i; dev->writeMessage(msg); ++i (lines 120-123).
CbMessageWrite ==
    /\ ~crashed /\ pc["net"] = "msg_loop" /\ msgI # msgE
    /\ \E d \in Derefs(msgI) :
          IF d = 0 THEN Crash
          ELSE /\ msgLog' = Append(msgLog, d)
               /\ msgI' = msgI + 1
               /\ UNCHANGED <<cfgVars, logged, lateVars, regVars, mEventMutex, pc, crashed,
                              msgE, msgSnap, flushVars, hpVars, callVars,
                              pollVars>>

\* The loop is over; unlock and return (line 125).
CbMessageUnlock ==
    /\ ~crashed /\ pc["net"] = "msg_loop" /\ msgI = msgE
    /\ Unlock("net")
    /\ msgI' = 0 /\ msgE' = 0 /\ msgLog' = <<>> /\ msgSnap' = <<>>
    /\ pc' = [pc EXCEPT !["net"] = "idle"]
    /\ attachReq' = IF attachReq = "during" THEN "after" ELSE attachReq
    /\ late' = late \ Range(msgLog)
    /\ lateInF' = FALSE
    /\ UNCHANGED <<cfgVars, logged, regVars, crashed, flushVars, hpVars, callVars,
                   pollVars>>

(* ------------------------- mainLoop, cbHotplug ------------------------- *)

\* libusb delivers one hotplug event per callback.
HotplugEvents == {"ARRIVED", "LEFT"}

\* startUSB: libusb_hotplug_register_callback with LIBUSB_HOTPLUG_ENUMERATE
\* calls cbHotplug, on the calling thread, with an arrival event for an
\* attached device (lines 96-103).  Without hotplug support the
\* registration fails and no callback is made.  (A device that was rejected
\* may be reported again here; a rejection leaves nothing behind.)
StartUSBEnumerate ==
    /\ ~crashed /\ pc["main"] = "start" /\ hasHotplug
    /\ \E device \in Handles :
          /\ \A k \in 1..Len(mUSBDevices) :
                objs[mUSBDevices[k]].device # device
          /\ hpDevice' = device
    /\ hpEvent' = "ARRIVED" /\ hpFrom' = "start"
    /\ pc' = [pc EXCEPT !["main"] = "hp_lock"]
    /\ attachReq' = IF record # "late" THEN "none"
                    ELSE IF pc["net"] = "msg_loop" THEN "during" ELSE "idle"
    /\ UNCHANGED <<late, lateInF>>
    /\ UNCHANGED <<cfgVars, logged, regVars, mEventMutex, crashed, netVars,
                   flushVars, callVars, pollVars>>

\* startUSB returns, having created the poll thread on a platform without
\* hotplug support (lines 106-108); mainLoop is entered.
StartUSBDone ==
    /\ ~crashed /\ pc["main"] = "start"
    /\ pc' = [pc EXCEPT !["main"] = "pump",
                        !["poll"] = IF hasHotplug THEN "none" ELSE "poll_enum"]
    /\ UNCHANGED <<cfgVars, logged, lateVars, regVars, mEventMutex, crashed,
                   netVars, flushVars, hpVars, callVars, pollVars>>

\* libusb_handle_events_completed runs a hotplug callback (line 239).  The
\* callback was registered for arrival and left events (lines 96-103); on
\* platforms without hotplug support it is never called.
PumpHotplug ==
    /\ ~crashed /\ pc["main"] = "pump" /\ hasHotplug
    /\ \E device \in Handles, event \in HotplugEvents :
          /\ hpDevice' = device
          /\ hpEvent' = event
    /\ hpFrom' = "pump"
    /\ pc' = [pc EXCEPT !["main"] = "hp_lock"]
    /\ attachReq' = IF record # "late" \/ hpEvent' # "ARRIVED" THEN "none"
                    ELSE IF pc["net"] = "msg_loop" THEN "during" ELSE "idle"
    /\ UNCHANGED <<late, lateInF>>
    /\ UNCHANGED <<cfgVars, logged, regVars, mEventMutex, crashed, netVars, flushVars,
                   callVars, pollVars>>

\* Mutant: cbHotplug goes on without taking the lock.
CbHotplugNoLock ==
    /\ ~crashed /\ pc["main"] = "hp_lock"
    /\ pc' = [pc EXCEPT !["main"] = "hp_body"]
    /\ UNCHANGED <<cfgVars, logged, lateVars, regVars, mEventMutex, crashed, netVars, flushVars,
                   hpVars, callVars, pollVars>>

\* cbHotplug: self->mEventMutex.lock() (line 132).
CbHotplugLock ==
    /\ ~crashed /\ pc["main"] = "hp_lock" /\ MutexFree
    /\ Lock("main")
    /\ pc' = [pc EXCEPT !["main"] = "hp_body"]
    /\ UNCHANGED <<cfgVars, logged, lateVars, regVars, crashed, netVars, flushVars, hpVars,
                   callVars, pollVars>>

\* cbHotplug: the two event tests (lines 134-139).
CbHotplugBody ==
    /\ ~crashed /\ pc["main"] = "hp_body"
    /\ IF hpEvent = "ARRIVED"
       THEN \E in \in ArrivalInputs :
               usbDeviceArrived(hpDevice, in.fc, in.en, in.r, in.pao, in.sat)
       ELSE /\ usbDeviceLeft(hpDevice)
            /\ lastArrival' = NoArrival
            /\ UNCHANGED rejected
    /\ UNCHANGED stale
    /\ pc' = [pc EXCEPT !["main"] = "hp_unlock"]
    /\ LateUpdate
    /\ UNCHANGED attachReq
    /\ Log("main", IF hpEvent = "ARRIVED" THEN ArrivalLog(lastArrival'.hist)
                    ELSE LeftLog(mUSBDevices' # mUSBDevices))
    /\ UNCHANGED <<cfgVars, mEventMutex, crashed, netVars, flushVars, hpVars,
                   pollVars>>

\* cbHotplug: unlock and return to libusb, and with it to the event pump or
\* to startUSB (lines 141-142).
CbHotplugUnlock ==
    /\ ~crashed /\ pc["main"] = "hp_unlock"
    /\ Unlock("main")
    /\ hpDevice' = NoHandle /\ hpEvent' = "NONE" /\ hpFrom' = "none"
    /\ lastArrival' = NoArrival /\ lastLeft' = NoLeft
    /\ UNCHANGED rejected
    /\ pc' = [pc EXCEPT !["main"] = hpFrom]
    /\ attachReq' = "none"
    /\ UNCHANGED <<late, lateInF>>
    /\ Log("main", <<>>)
    /\ UNCHANGED <<cfgVars, regVars, crashed, netVars, flushVars, pollVars>>

\* libusb_handle_events_completed returns, with or without an error
\* (lines 239-243); the flush pass locks and sets up its loop (246-247).
FlushLock ==
    /\ ~crashed /\ pc["main"] = "pump" /\ MutexFree
    /\ Lock("main")
    /\ flushI' = 1 /\ flushE' = Len(mUSBDevices) + 1
    /\ flushLog' = <<>> /\ flushSnap' = mUSBDevices
    /\ pc' = [pc EXCEPT !["main"] = "flush_loop"]
    /\ \E err \in BOOLEAN :
          Log("main", IF err THEN <<"error handling USB events">> ELSE <<>>)
    /\ UNCHANGED <<cfgVars, lateVars, regVars, crashed, netVars, hpVars, callVars,
                   pollVars>>

\* One iteration: dev = *i; dev->flush(); ++i (lines 247-250).
FlushStep ==
    /\ ~crashed /\ pc["main"] = "flush_loop" /\ flushI # flushE
    /\ \E d \in Derefs(flushI) :
          IF d = 0 THEN Crash
          ELSE /\ flushLog' = Append(flushLog, d)
               /\ flushI' = flushI + 1
               /\ UNCHANGED <<cfgVars, logged, lateVars, regVars, mEventMutex, pc, crashed,
                              netVars, flushE, flushSnap, hpVars, callVars,
                              pollVars>>

\* The flush pass is over; unlock and loop (lines 251-252).
FlushUnlock ==
    /\ ~crashed /\ pc["main"] = "flush_loop" /\ flushI = flushE
    /\ Unlock("main")
    /\ flushI' = 0 /\ flushE' = 0 /\ flushLog' = <<>> /\ flushSnap' = <<>>
    /\ pc' = [pc EXCEPT !["main"] = "pump"]
    /\ Log("main", <<>>)
    /\ UNCHANGED <<cfgVars, lateVars, regVars, crashed, netVars, hpVars, callVars,
                   pollVars>>

(* --------------------------- usbHotplugPoll ---------------------------- *)

\* The device lists libusb_get_device_list can return: each attached device
\* once.  Handles are numbered in the order libusb lists them.
Lists ==
    UNION {{l \in [1..n -> Handles] : \A a, b \in 1..n : a < b => l[a] < l[b]} :
           n \in 0..NumHandles}

\* Mutant: isNew is assigned on every iteration, so the last registered
\* device decides.
IsNewLastDecides(vec, os, h, i, isNew) ==
    IF vec = <<>> THEN isNew ELSE os[vec[Len(vec)]].device # h

\* The inner loop of the add pass (lines 278-285): isNew stays true when no
\* registered device has the handle.
RECURSIVE IsNew(_, _, _, _, _)
IsNew(vec, os, h, i, isNew) ==
    IF i > Len(vec) THEN isNew
    ELSE IsNew(vec, os, h, i + 1, IF os[vec[i]].device = h THEN FALSE ELSE isNew)

\* The inner loop of the removal pass (lines 296-302): isRemoved stays true
\* when no list item equals usbdev.
RECURSIVE IsRemoved(_, _, _, _)
IsRemoved(l, usbdev, k, isRemoved) ==
    IF k > Len(l) THEN isRemoved
    ELSE IsRemoved(l, usbdev, k + 1, IF l[k] = usbdev THEN FALSE ELSE isRemoved)

\* Mutant: the lock is taken before libusb_get_device_list is called.
PollEnumerateLocked ==
    /\ ~crashed /\ pc["poll"] = "poll_enum" /\ MutexFree
    /\ Lock("poll")
    /\ list' \in Lists
    /\ pc' = [pc EXCEPT !["poll"] = "poll_lock"]
    /\ attachReq' = IF record # "late" THEN "none"
                    ELSE IF pc["net"] = "msg_loop" THEN "during" ELSE "idle"
    /\ UNCHANGED <<late, lateInF>>
    /\ UNCHANGED <<cfgVars, logged, regVars, crashed, netVars, flushVars,
                   hpVars, callVars, listItem, scanI, scanE, pollStart,
                   pollCalls>>

\* libusb_get_device_list succeeds (line 267).
PollEnumerate ==
    /\ ~crashed /\ pc["poll"] = "poll_enum"
    /\ list' \in Lists
    /\ pc' = [pc EXCEPT !["poll"] = "poll_lock"]
    /\ attachReq' = IF record # "late" THEN "none"
                    ELSE IF pc["net"] = "msg_loop" THEN "during" ELSE "idle"
    /\ UNCHANGED <<late, lateInF>>
    /\ UNCHANGED <<cfgVars, logged, regVars, mEventMutex, crashed, netVars, flushVars,
                   hpVars, callVars, listItem, scanI, scanE, pollStart,
                   pollCalls>>

\* libusb_get_device_list fails: usbHotplugPoll returns false and
\* usbHotplugThreadFunc returns (lines 268-271, 318).
PollEnumerateFails ==
    /\ ~crashed /\ pc["poll"] = "poll_enum"
    /\ pc' = [pc EXCEPT !["poll"] = "poll_exit"]
    /\ Log("poll", <<"error polling for USB devices">>)
    /\ UNCHANGED <<cfgVars, lateVars, regVars, mEventMutex, crashed, netVars, flushVars,
                   hpVars, callVars, pollVars>>

\* mEventMutex.lock() (line 274) and the set-up of the add loop (277).
PollLock ==
    /\ ~crashed /\ pc["poll"] = "poll_lock" /\ MutexFree
    /\ Lock("poll")
    /\ listItem' = 1
    /\ pollStart' = mUSBDevices /\ pollCalls' = <<>>
    /\ pc' = [pc EXCEPT !["poll"] = "poll_add"]
    /\ UNCHANGED <<cfgVars, logged, lateVars, regVars, crashed, netVars, flushVars, hpVars,
                   callVars, list, scanI, scanE>>

\* One iteration of the add loop (lines 277-290).
PollAdd ==
    /\ ~crashed /\ pc["poll"] = "poll_add" /\ listItem <= Len(list)
    /\ IF IsNew(mUSBDevices, objs, list[listItem], 1, TRUE)
       THEN /\ \E in \in ArrivalInputs :
                  usbDeviceArrived(list[listItem], in.fc, in.en, in.r,
                                   in.pao, in.sat)
            /\ pollCalls' = Append(pollCalls, list[listItem])
       ELSE /\ lastArrival' = NoArrival /\ lastLeft' = NoLeft
            /\ UNCHANGED rejected
            /\ UNCHANGED <<mUSBDevices, objs, pollCalls>>
    /\ listItem' = listItem + 1
    /\ LateUpdate
    /\ UNCHANGED attachReq
    /\ Log("poll", IF lastArrival'.called THEN ArrivalLog(lastArrival'.hist)
                    ELSE <<>>)
    /\ UNCHANGED <<cfgVars, stale, mEventMutex, pc, crashed, netVars,
                   flushVars, hpVars, list, scanI, scanE, pollStart>>

\* The add loop is over; set-up of the removal loop (line 293).
PollAddDone ==
    /\ ~crashed /\ pc["poll"] = "poll_add" /\ listItem > Len(list)
    /\ scanI' = 1 /\ scanE' = Len(mUSBDevices) + 1
    /\ lastArrival' = NoArrival /\ lastLeft' = NoLeft
    /\ UNCHANGED rejected
    /\ pc' = [pc EXCEPT !["poll"] = "poll_remove"]
    /\ attachReq' = "none"
    /\ UNCHANGED <<late, lateInF>>
    /\ Log("poll", <<>>)
    /\ UNCHANGED <<cfgVars, regVars, mEventMutex, crashed, netVars, flushVars,
                   hpVars, list, listItem, pollStart, pollCalls>>

\* usbDeviceLeft(i) from the removal loop, which goes on using i and e
\* after the erase.  The slot that held the last element keeps its value
\* and is now past end().  For i at or past end(), erase is undefined
\* behaviour: the vector's end moves down one slot and nothing else moves.
\* delete dev destroys the object, whose memory keeps the handle while
\* slots past end() still point to it; delete on a destroyed object (a
\* double free) leaves it destroyed.
ScanLeft(vec, st, os, p, d) ==
    [vec |-> IF p <= Len(vec) THEN RemoveAt(vec, p)
             ELSE SubSeq(vec, 1, Len(vec) - 1),
     stale |-> <<vec[Len(vec)]>> \o st,
     objs |-> [os EXCEPT ![d] = [device |-> os[d].device, setup |-> <<>>,
                                 alive |-> FALSE]]]

\* One iteration of the removal loop (lines 293-307).  Undefined behaviour
\* (a read past end(), a call on a destroyed object, an erase past end(), a
\* double delete, the use of i and e after erase invalidated them) either
\* aborts the process or goes on with what the memory holds.
PollRemove ==
    /\ ~crashed /\ pc["poll"] = "poll_remove" /\ scanI # scanE
    /\ \E d \in Derefs(scanI), ub \in {"proceed", "abort"} :
          IF d = 0 THEN Crash
          ELSE \E usbdev \in GetDevice(d) :
             LET isRemoved == IsRemoved(list, usbdev, 1, TRUE)
                 undefined == ~objs[d].alive \/ isRemoved
                 res == ScanLeft(mUSBDevices, stale, objs, scanI, d)
             IN  IF (undefined /\ ub = "abort") \/
                    (isRemoved /\ mUSBDevices = <<>>)
                 THEN Crash
                 ELSE /\ IF isRemoved
                         THEN /\ mUSBDevices' = res.vec
                              /\ stale' = res.stale
                              /\ objs' = res.objs
                         ELSE UNCHANGED regVars
                      /\ scanI' = scanI + 1
                      /\ LateUpdate
                      /\ Log("poll", LeftLog(isRemoved))
                      /\ UNCHANGED <<cfgVars, attachReq, mEventMutex, pc, crashed,
                                     netVars, flushVars, hpVars, callVars,
                                     list, listItem, scanE, pollStart,
                                     pollCalls>>

\* Mutant: usbHotplugPoll returns without unlocking.
PollReturnLocked ==
    /\ ~crashed /\ pc["poll"] = "poll_remove" /\ scanI = scanE
    /\ stale' = <<>>
    /\ objs' = [d \in 1..Len(objs) |->
                  IF objs[d].alive THEN objs[d] ELSE Destroyed]
    /\ list' = <<>> /\ listItem' = 0 /\ scanI' = 0 /\ scanE' = 0
    /\ pollStart' = <<>> /\ pollCalls' = <<>>
    /\ pc' = [pc EXCEPT !["poll"] = "poll_sleep"]
    /\ Log("poll", <<>>)
    /\ UNCHANGED <<cfgVars, lateVars, mUSBDevices, mEventMutex, crashed,
                   netVars, flushVars, hpVars, callVars>>

\* The removal loop is over: unlock, free the list, return true
\* (lines 309-311).  The loop's iterators are gone, and with them the last
\* pointers to the objects it destroyed.
PollUnlock ==
    /\ ~crashed /\ pc["poll"] = "poll_remove" /\ scanI = scanE
    /\ Unlock("poll")
    /\ stale' = <<>>
    /\ objs' = [d \in 1..Len(objs) |->
                  IF objs[d].alive THEN objs[d] ELSE Destroyed]
    /\ list' = <<>> /\ listItem' = 0 /\ scanI' = 0 /\ scanE' = 0
    /\ pollStart' = <<>> /\ pollCalls' = <<>>
    /\ pc' = [pc EXCEPT !["poll"] = "poll_sleep"]
    /\ Log("poll", <<>>)
    /\ UNCHANGED <<cfgVars, lateVars, mUSBDevices, crashed, netVars, flushVars,
                   hpVars, callVars>>

\* usbHotplugThreadFunc sleeps one second and polls again (lines 318-320).
PollSleep ==
    /\ ~crashed /\ pc["poll"] = "poll_sleep"
    /\ pc' = [pc EXCEPT !["poll"] = "poll_enum"]
    /\ UNCHANGED <<cfgVars, logged, lateVars, regVars, mEventMutex, crashed, netVars, flushVars,
                   hpVars, callVars, pollVars>>

(* ------------------------------- Init ---------------------------------- *)

\* The state once the constructor has returned and start() has started the
\* OPC sink (line 87), in a behaviour that keeps the history `rec`.
Start(rec) ==
    /\ record = rec
    /\ mVerbose \in (IF rec = "log" THEN BOOLEAN ELSE {FALSE})
    /\ logged = NoLog
    /\ hasHotplug \in BOOLEAN
    /\ mDevices \in ConfigArrays
    /\ mUSBDevices = <<>> /\ stale = <<>> /\ objs = <<>>
    /\ mEventMutex = {}
    /\ pc = [t \in Threads |->
               IF t = "main" THEN "start"
               ELSE IF t = "net" THEN "idle"
               ELSE "none"]
    /\ crashed = FALSE
    /\ msgI = 0 /\ msgE = 0 /\ msgLog = <<>> /\ msgSnap = <<>>
    /\ flushI = 0 /\ flushE = 0 /\ flushLog = <<>> /\ flushSnap = <<>>
    /\ hpDevice = NoHandle /\ hpEvent = "NONE" /\ hpFrom = "none"
    /\ lastArrival = NoArrival /\ lastLeft = NoLeft /\ rejected = NoHandle
    /\ list = <<>> /\ listItem = 0 /\ scanI = 0 /\ scanE = 0
    /\ pollStart = <<>> /\ pollCalls = <<>>
    /\ attachReq = "none" /\ late = {} /\ lateInF = FALSE

Init == Start("none")

Next ==
    \/ StartUSBEnumerate \/ StartUSBDone
    \/ CbMessageLock \/ CbMessageWrite \/ CbMessageUnlock
    \/ PumpHotplug \/ CbHotplugLock \/ CbHotplugBody \/ CbHotplugUnlock
    \/ FlushLock \/ FlushStep \/ FlushUnlock
    \/ PollEnumerate \/ PollEnumerateFails \/ PollLock \/ PollAdd
    \/ PollAddDone \/ PollRemove \/ PollUnlock \/ PollSleep

Spec == Init /\ [][Next]_vars

\* The threads are scheduled: a thread that can take its next step takes
\* it, and a thread waiting in mEventMutex.lock() gets the mutex if it is
\* free again and again (fair lock acquisition).  Nothing makes a frame or
\* a hotplug event arrive; the main loop's event pump returns.
Fairness ==
    /\ WF_vars(CbMessageWrite) /\ WF_vars(CbMessageUnlock)
    /\ SF_vars(CbHotplugLock) /\ WF_vars(CbHotplugBody)
    /\ WF_vars(CbHotplugUnlock)
    /\ SF_vars(FlushLock) /\ WF_vars(FlushStep) /\ WF_vars(FlushUnlock)
    /\ WF_vars(PollEnumerate \/ PollEnumerateFails)
    /\ SF_vars(PollLock) /\ WF_vars(PollAdd) /\ WF_vars(PollAddDone)
    /\ WF_vars(PollRemove) /\ WF_vars(PollUnlock) /\ WF_vars(PollSleep)

FairSpec == Spec /\ Fairness

\* The same program, keeping the history of attach requests that were
\* pending while cbMessage ran.
InitLate == Start("late")
SpecLate == InitLate /\ [][Next]_vars

\* The same program, with mVerbose either way, keeping the history of the
\* lines written to std::clog.  (mVerbose is read only where a line is
\* written.)
InitLog == Start("log")
SpecLog == InitLog /\ [][Next]_vars

\* The same program, keeping the history of the handles it rejected.
InitRetry == Start("retry")
SpecRetry == InitRetry /\ [][Next]_vars

(* ===================== properties of the registry ====================== *)

\* Object ids that are registered.
Registered == Range(mUSBDevices)

\* C1: mUSBDevices never contains two entries whose getDevice() is the same
\* native handle, whatever hotplug events and poll cycles have occurred.
C1_NoDuplicateHandles ==
    \A a, b \in 1..Len(mUSBDevices) :
        objs[mUSBDevices[a]].device = objs[mUSBDevices[b]].device => a = b

\* C2: once a device object has been removed from the registry and destroyed
\* by usbDeviceLeft, writeMessage and flush are never invoked on it again:
\* every step that makes such a call makes it on an object that is alive.
C2_NoUseAfterRemoval ==
    [][/\ Len(msgLog') > Len(msgLog) => objs[msgLog'[Len(msgLog')]].alive
       /\ Len(flushLog') > Len(flushLog) => objs[flushLog'[Len(flushLog')]].alive
      ]_vars

\* C2 witness: a destroyed object exists, and a later broadcast and flush
\* pass have made their calls on the devices still registered.
C2_Witness ==
    /\ \E d \in 1..Len(objs) : ~objs[d].alive
    /\ mUSBDevices # <<>>
    /\ pc["net"] = "msg_loop" /\ msgLog = mUSBDevices

\* Positions at which a thread reads or writes mUSBDevices.
AccessPcs == {"msg_loop", "hp_body", "flush_loop", "poll_add", "poll_remove"}

\* C3: every read or write of mUSBDevices is made by a thread that holds
\* mEventMutex, and at most one thread holds mEventMutex at a time.
C3_RegistryUnderLock ==
    /\ \A t \in Threads : pc[t] \in AccessPcs => t \in mEventMutex
    /\ Cardinality(mEventMutex) <= 1

\* C3 witness: the broadcaster iterates the registry under the lock while a
\* hotplug callback waits for it.
C3_Witness ==
    /\ pc["net"] = "msg_loop" /\ msgLog # <<>>
    /\ pc["main"] = "hp_lock"
    /\ mEventMutex = {"net"}

\* Handles of the devices registered when the poll cycle took the lock.
StartHandles == {objs[d].device : d \in Range(pollStart)}

\* C4: when a successful poll cycle releases the lock (its removal loop is
\* over), every device that was registered at its start and whose handle is
\* not in the enumerated list has been removed, and every one whose handle
\* is in the list is still registered.
C4_PollDetach ==
    (pc["poll"] = "poll_remove" /\ scanI = scanE) =>
        \A d \in Range(pollStart) :
            d \in Registered <=> objs[d].device \in Range(list)

NotRegisteredAtStart(h) == h \notin StartHandles

\* C5: in one poll cycle usbDeviceArrived is called exactly once, in list
\* order, for each enumerated handle that is not registered when it is
\* examined, and never for one that is.  (List items are distinct, so a
\* handle is registered when examined exactly when it was at the start.)
C5_PollAttach ==
    pc["poll"] \in {"poll_add", "poll_remove"} =>
        /\ pollCalls = SelectSeq(SubSeq(list, 1, listItem - 1),
                                 NotRegisteredAtStart)
        /\ (pc["poll"] = "poll_add" /\ listItem > 1 /\
            list[listItem - 1] \in StartHandles)
              => (~lastArrival.called /\ mUSBDevices = pollStart \o
                     SubSeq(mUSBDevices, Len(pollStart) + 1, Len(mUSBDevices)))

\* C5 witness: a cycle whose list held a registered handle and a new one
\* has called usbDeviceArrived for the new one only.
C5_Witness ==
    /\ pc["poll"] = "poll_remove"
    /\ Len(list) = 3 /\ Len(pollCalls) = 1 /\ Len(pollStart) = 2
    /\ pollCalls[1] = list[2]

\* The calls, among those named, that a registered object remembers.
AttachOps == {"probe", "open", "probeAfterOpening", "matchConfiguration",
              "push_back"}
IsAttachOp(o) == o \in AttachOps

\* Some event of h at a position in lo..hi has this op and a result in ok.
Has(h, lo, hi, op, ok) ==
    \E k \in lo..hi : h[k].op = op /\ h[k].res \in ok

\* C6: every object in mUSBDevices was accepted by a static probe, then had
\* open() return a non-negative result, then probeAfterOpening() return
\* true, then matchConfiguration() return true, before it was pushed.
C6_AttachPreconditions ==
    /\ \A d \in Registered :
          SelectSeq(objs[d].setup, IsAttachOp) =
              <<"probe", "open", "probeAfterOpening", "matchConfiguration",
                "push_back">>
    /\ LET h == lastArrival.hist
       IN  Pushed(h) =>
             \E a \in 1..Len(h) :
               /\ h[a].op = "probe" /\ h[a].res = 1
               /\ \E b \in (a + 1)..Len(h) :
                  /\ h[b].op = "open" /\ h[b].res >= 0
                  /\ \E c \in (b + 1)..Len(h) :
                     /\ h[c].op = "probeAfterOpening" /\ h[c].res = 1
                     /\ \E m \in (c + 1)..Len(h) :
                        /\ h[m].op = "matchConfiguration" /\ h[m].res = 1
                        /\ \E e \in (m + 1)..Len(h) : h[e].op = "push_back"

\* C6 witness: a device the second driver accepted, matched by the second
\* configuration entry, has just been pushed next to another device.
C6_Witness ==
    /\ Len(mUSBDevices) = 2
    /\ Pushed(lastArrival.hist)
    /\ Has(lastArrival.hist, 1, Len(lastArrival.hist), "probe", {0})
    /\ Has(lastArrival.hist, 1, Len(lastArrival.hist), "matchConfiguration", {0})

\* Position of the first occurrence of name o in a sequence of names, or 0.
IndexOf(names, o) ==
    IF \E k \in 1..Len(names) : names[k] = o
    THEN CHOOSE k \in 1..Len(names) :
            names[k] = o /\ \A j \in 1..(k - 1) : names[j] # o
    ELSE 0

\* C7: writeColorCorrection is called exactly once on every device object
\* that is registered, before the push_back; no writeMessage or flush is
\* made on an object that has not received it; a rejected object never
\* receives it.
C7_ColorCorrectionOnce ==
    /\ \A d \in 1..Len(objs) :
          objs[d].alive =>
            /\ Cardinality({k \in 1..Len(objs[d].setup) :
                              objs[d].setup[k] = "writeColorCorrection"}) = 1
            /\ IndexOf(objs[d].setup, "writeColorCorrection") <
                   IndexOf(objs[d].setup, "push_back")
    /\ \A d \in Range(msgLog) \cup Range(flushLog) :
          "writeColorCorrection" \in Range(objs[d].setup)
    /\ lastArrival.called =>
          CountOp(lastArrival.hist, "writeColorCorrection") =
              B2I(Pushed(lastArrival.hist))

\* C7 witness: two registered devices have received a frame.
C7_Witness ==
    /\ pc["net"] = "msg_loop" /\ Len(msgLog) = 2
    /\ \A d \in Range(msgLog) :
          "writeColorCorrection" \in Range(objs[d].setup)

IsMatchCall(e) == e.op = "matchConfiguration"

\* The matchConfiguration calls of h, in order.
Consults(h) == SelectSeq(h, IsMatchCall)

\* The lowest index of cfg whose entry is in sat, or -1.
FirstMatch(cfg, sat) ==
    IF \E k \in 0..(Len(cfg) - 1) : cfg[k + 1] \in sat
    THEN CHOOSE k \in 0..(Len(cfg) - 1) :
            cfg[k + 1] \in sat /\ \A j \in 0..(k - 1) : cfg[j + 1] \notin sat
    ELSE -1

\* C8: once the device is opened and probed, configuration entries are
\* consulted in array order from index 0 and consultation stops at the first
\* entry that returns true: with k the lowest matching index, exactly
\* entries 0..k are consulted; a device satisfying every entry is assigned
\* the first entry of the array.
C8_FirstMatch ==
    LET h == lastArrival.hist
        m == Consults(h)
        k == FirstMatch(mDevices, lastArrival.sat)
    IN  (lastArrival.called /\ Has(h, 1, Len(h), "probeAfterOpening", {1})) =>
          /\ \A j \in 1..Len(m) : m[j].arg = j - 1
          /\ IF k >= 0
             THEN /\ Len(m) = k + 1
                  /\ m[k + 1].res = 1
                  /\ \A j \in 1..k : m[j].res = 0
                  /\ Pushed(h)
             ELSE /\ Len(m) = Len(mDevices)
                  /\ \A j \in 1..Len(m) : m[j].res = 0
                  /\ ~Pushed(h)
          /\ lastArrival.sat = CfgEntries => (Len(m) = 1 /\ m[1].arg = 0)

\* C8 witness: with the array [B, A], a device that satisfies only A was
\* assigned after entries 0 and 1 were consulted.
C8_Witness ==
    /\ lastArrival.called /\ Pushed(lastArrival.hist)
    /\ mDevices = <<"B", "A">> /\ lastArrival.sat = {"A"}
    /\ Len(Consults(lastArrival.hist)) = 2

\* The call ended in one of the rejecting outcomes: no static probe
\* accepted, open() failed, probeAfterOpening() failed, or no entry matched.
Rejected(h) ==
    \/ ~Has(h, 1, Len(h), "probe", {1})
    \/ Has(h, 1, Len(h), "open", {-1})
    \/ Has(h, 1, Len(h), "probeAfterOpening", {0})
    \/ ~Has(h, 1, Len(h), "matchConfiguration", {1})

\* C9: every rejecting outcome of usbDeviceArrived leaves mUSBDevices as it
\* was, and a driver instance constructed during the call is destroyed
\* before the call returns.
C9_RejectLeavesRegistry ==
    LET h == lastArrival.hist
    IN  (lastArrival.called /\ Rejected(h)) =>
          /\ lastArrival.after = lastArrival.before
          /\ mUSBDevices = lastArrival.before
          /\ CountOp(h, "delete") = CountOp(h, "new")
          /\ CountOp(h, "new") = 1 => h[Len(h)].op = "delete"

\* C9 witness: a device was constructed, opened and probed, matched no
\* entry and was destroyed, with another device registered.
C9_Witness ==
    /\ lastArrival.called /\ Rejected(lastArrival.hist)
    /\ Len(Consults(lastArrival.hist)) = 2
    /\ CountOp(lastArrival.hist, "delete") = 1
    /\ lastArrival.before # <<>>

\* C10: one invocation of cbMessage makes exactly one writeMessage call on
\* each device registered when the lock was acquired, in registration
\* order, and none on a device removed before.
C10_BroadcastFanOut ==
    (pc["net"] = "msg_loop" /\ msgI = msgE) =>
        /\ msgLog = msgSnap
        /\ \A a, b \in 1..Len(msgLog) : a < b => msgLog[a] < msgLog[b]
        /\ \A d \in Range(msgLog) : objs[d].alive

\* C10 witness: a broadcast has written to the two registered devices, a
\* third having been removed before.
C10_Witness ==
    /\ pc["net"] = "msg_loop" /\ msgI = msgE
    /\ Len(msgLog) = 2
    /\ \E d \in 1..Len(objs) : ~objs[d].alive

\* C11: a device whose attach (by a hotplug callback or a poll cycle) was
\* pending while cbMessage broadcast a frame F is not given writeMessage
\* for F, and, while it stays registered, every later call of cbMessage
\* (the next frame among them) starts with it in the registry and has given
\* it writeMessage when its loop ends.
C11_LateAttach ==
    \A d \in late :
        /\ d \in Registered
        /\ lateInF => d \notin Range(msgLog)
        /\ (pc["net"] = "msg_loop" /\ ~lateInF) =>
              /\ d \in Range(msgSnap)
              /\ msgI = msgE => d \in Range(msgLog)

\* C11 witness: the next frame's loop has reached a device whose attach had
\* waited for an earlier frame's broadcast to end.
C11_Witness ==
    /\ pc["net"] = "msg_loop" /\ ~lateInF
    /\ \E d \in late : d \in Range(msgLog)

\* C12: usbDeviceLeft(handle), when the registry holds an entry with that
\* handle, removes one such entry and destroys its object, and leaves all
\* other entries in place in their order, their objects alive; when the
\* registry holds none, it leaves the registry as it was and destroys
\* nothing.
C12_LeftEffect ==
    lastLeft.called =>
        LET alive == {d \in 1..Len(objs) : objs[d].alive}
            at == {k \in 1..Len(lastLeft.before) :
                     lastLeft.handles[k] = lastLeft.device}
        IN  /\ mUSBDevices = lastLeft.after
            /\ IF at = {}
               THEN lastLeft.after = lastLeft.before /\ alive = lastLeft.alive
               ELSE \E k \in at :
                       /\ lastLeft.after = RemoveAt(lastLeft.before, k)
                       /\ alive = lastLeft.alive \ {lastLeft.before[k]}
                       /\ lastLeft.before[k] \in lastLeft.alive

\* C12 witness: the call removed the middle one of three entries.
C12_Witness ==
    /\ lastLeft.called
    /\ Len(lastLeft.before) = 3
    /\ lastLeft.handles[2] = lastLeft.device
    /\ lastLeft.handles[1] # lastLeft.device
    /\ lastLeft.after = <<lastLeft.before[1], lastLeft.before[3]>>

\* C13: after cbHotplug has processed a left event for handle h, the
\* registry holds no entry whose getDevice() is h (so that no broadcast or
\* flush pass can reach a device with handle h before h arrives again).
C13_LeftClearsHandle ==
    lastLeft.called =>
        \A k \in 1..Len(mUSBDevices) :
            objs[mUSBDevices[k]].device # lastLeft.device

\* The calls of the usbDeviceArrived call just made that can block on the
\* device: open() and probeAfterOpening().
BlockingCalls ==
    {k \in 1..Len(lastArrival.hist) :
        lastArrival.hist[k].op \in {"open", "probeAfterOpening"}}

\* Positions of the poll thread from the call of libusb_get_device_list to
\* its return, and outside usbHotplugPoll.
EnumPcs == {"none", "poll_enum", "poll_lock", "poll_sleep", "poll_exit"}

\* C14 as stated: no thread holds mEventMutex while a blocking transport
\* call is made: not the poll loop during its USB enumeration, and no
\* thread during the open() and probeAfterOpening() calls of an attach.
C14_NoBlockingUnderLock ==
    /\ pc["poll"] \in EnumPcs => "poll" \notin mEventMutex
    /\ (lastArrival.called /\ BlockingCalls # {}) => mEventMutex = {}

\* C14 amended: the poll loop does not hold mEventMutex during its USB
\* enumeration, while the open() and probeAfterOpening() calls of an attach
\* are made by a thread that holds mEventMutex: the poll thread in its add
\* loop, or the main thread inside cbHotplug.
C14_OnlyEnumerationUnlocked ==
    /\ pc["poll"] \in EnumPcs => "poll" \notin mEventMutex
    /\ (lastArrival.called /\ BlockingCalls # {}) =>
          \/ pc["poll"] = "poll_add" /\ mEventMutex = {"poll"}
          \/ pc["main"] = "hp_unlock" /\ mEventMutex = {"main"}

\* C14 witness: a poll cycle has called open() and probeAfterOpening() on a
\* new device while holding the lock.
C14_Witness ==
    /\ pc["poll"] = "poll_add" /\ mEventMutex = {"poll"}
    /\ lastArrival.called /\ Cardinality(BlockingCalls) = 2

\* The call went through every stage its results allowed: the static
\* probes first, open() once a driver recognised the device,
\* probeAfterOpening() once open() succeeded, the configuration entries
\* from index 0 once probeAfterOpening() succeeded, and push_back once an
\* entry matched.
FullAttempt(h) ==
    /\ h # <<>> /\ h[1] \in {Ev("probe", FCDevice, 0), Ev("probe", FCDevice, 1)}
    /\ Has(h, 1, Len(h), "probe", {1}) => CountOp(h, "open") = 1
    /\ Has(h, 1, Len(h), "open", {0}) => CountOp(h, "probeAfterOpening") = 1
    /\ Has(h, 1, Len(h), "probeAfterOpening", {1}) =>
          \E k \in 1..Len(h) : h[k].op = "matchConfiguration" /\ h[k].arg = 0
    /\ Has(h, 1, Len(h), "matchConfiguration", {1}) => Pushed(h)

Written == Range(logged["main"]) \cup Range(logged["poll"])

\* The lines that report an error of libusb itself, written without a test
\* of mVerbose (lines 241 and 269).
ErrorLines == {"error handling USB events", "error polling for USB devices"}

\* C16 as stated: when mVerbose is false no operation writes a log line,
\* be it an attach, a detach, a rejection, a transport pump error in the
\* main loop or an enumeration failure in the poll loop.
C16_SilentWhenNotVerbose ==
    ~mVerbose => Written = {}

\* C16 amended: when mVerbose is false, attach, detach and rejection write
\* no line; the only lines written are those of a transport pump error in
\* the main loop and of an enumeration failure in the poll loop, which are
\* written whatever mVerbose is.
C16_OnlyErrorsWhenNotVerbose ==
    /\ ~mVerbose => Written \subseteq ErrorLines
    /\ pc["poll"] = "poll_exit" =>
          logged["poll"] = <<"error polling for USB devices">>
    /\ Written \subseteq LogLines

\* C16 witness: with mVerbose false and a device registered, the poll loop
\* has reported its enumeration failure and the main loop a pump error.
C16_Witness ==
    /\ ~mVerbose /\ record = "log"
    /\ mUSBDevices # <<>>
    /\ logged["poll"] = <<"error polling for USB devices">>
    /\ logged["main"] = <<"error handling USB events">>

\* C17: every iteration of the removal scan of usbHotplugPoll reads a
\* vector position before the current end(), calls getDevice() (and
\* getName()) on a live object, and erases and destroys only a registered,
\* live device, so that none is erased or destroyed twice.
C17_ScanWithinVector ==
    (pc["poll"] = "poll_remove" /\ scanI # scanE) =>
        /\ scanI <= Len(mUSBDevices)
        /\ \A d \in Derefs(scanI) \ {0} :
              /\ objs[d].alive
              /\ \A usbdev \in GetDevice(d) :
                    IsRemoved(list, usbdev, 1, TRUE) => d \in Registered

Flushed(d) == pc["main"] = "flush_loop" /\ d \in Range(flushLog)

HoldPcs(t) ==
    IF t = "net" THEN {"msg_loop"}
    ELSE IF t = "main" THEN {"hp_body", "hp_unlock", "flush_loop"}
    ELSE {"poll_add", "poll_remove"}

\* A step of the thread that holds the lock.
HolderStep ==
    \/ CbMessageWrite \/ CbMessageUnlock
    \/ CbHotplugBody \/ CbHotplugUnlock
    \/ FlushStep \/ FlushUnlock
    \/ PollAdd \/ PollAddDone \/ PollRemove \/ PollUnlock

\* C20: mEventMutex cannot deadlock.  A thread holds it exactly between a
\* lock() and the next unlock() of cbMessage, cbHotplug, the flush pass or
\* usbHotplugPoll: it has released it when the function returns, and it
\* does not hold it when it calls lock(), cbHotplug being called from the
\* event pump or from startUSB, where the main thread holds no lock.
\* While the process runs, the holder can always take its next step, which
\* needs no lock.
C20_NoDeadlock ==
    /\ \A t \in Threads : t \in mEventMutex <=> pc[t] \in HoldPcs(t)
    /\ Cardinality(mEventMutex) <= 1
    /\ pc["main"] = "hp_lock" => hpFrom \in {"start", "pump"}
    /\ (~crashed /\ mEventMutex # {}) => ENABLED HolderStep

\* C20 witness: cbHotplug, called from startUSB's enumeration, waits in
\* lock() while cbMessage holds the mutex.
C20_Witness ==
    /\ pc["main"] = "hp_lock" /\ hpFrom = "start"
    /\ mEventMutex = {"net"}

====
